---- MODULE Spec2Model ----
(***************************************************************************)
(* A model of the argon2go package: the Argon2Config option constructors,  *)
(* CreateArgon2, argon2Hasher.Encode, argon2Hasher.Verify and              *)
(* getArgon2Mode of argon2.go, together with the parts of the linked       *)
(* libargon2 primitive (argon2_encodedlen, argon2_hash, argon2_verify,     *)
(* argon2_error_message) that the Go code calls.                           *)
(*                                                                         *)
(* Byte slices are sequences of integers in 0..255.  A Go slice is a       *)
(* record [isNil, data] so that nil and empty slices stay distinct.  A Go  *)
(* error is a record [origin, msg]: origin tells which value it is (one of *)
(* the package's sentinel variables, the value handed back by the random   *)
(* source, or a fresh errors.New), msg is its text.                        *)
(***************************************************************************)
EXTENDS Integers, Sequences, FiniteSets, TLC

(***************************************************************************)
(* Bounds of the model.                                                    *)
(***************************************************************************)
\* longest secret handed to Encode / Verify
MaxSecretLen == 1
\* number of distinct outputs the system random source can produce
NumSalts == 2
\* longest option list handed to CreateArgon2 in SpecCreate
MaxOpts == 2
\* number of concurrent callers in SpecConc
NumProcs == 2
MaxTailLen == 2

(***************************************************************************)
(* Constants of argon2.go (values of the cgo constants they are bound to). *)
(***************************************************************************)
Argon2ModeD == 0
Argon2ModeI == 1
Argon2ModeID == 2
Argon2Version10 == 16
Argon2Version13 == 19
Argon2VersionDefault == Argon2Version13

\* Go errors
NoError == [origin |-> "nil", msg |-> ""]
ErrEmptyInput == [origin |-> "ErrEmptyInput", msg |-> "empty input specified"]
ErrEmptyHash == [origin |-> "ErrEmptyHash", msg |-> "empty hash specified"]
ErrNotConfigured ==
    [origin |-> "ErrNotConfigured", msg |-> "instance is not configured properly"]
ErrInvalidArgon2Mode ==
    [origin |-> "ErrInvalidArgon2Mode", msg |-> "invalid argon2 mode"]
\* errors.New(text): a fresh error value
errorsNew(text) == [origin |-> "errors.New", msg |-> text]

(***************************************************************************)
(* Go slices and the byte-level library calls the package uses.            *)
(***************************************************************************)
NilSlice == [isNil |-> TRUE, data |-> <<>>]
Slice(s) == [isNil |-> FALSE, data |-> s]

\* strings.HasPrefix
HasPrefix(s, prefix) ==
    /\ Len(s) >= Len(prefix)
    /\ SubSeq(s, 1, Len(prefix)) = prefix

\* bytes.TrimRight(s, "\x00")
RECURSIVE TrimRightNul(_)
TrimRightNul(s) ==
    IF s # <<>> /\ s[Len(s)] = 0 THEN TrimRightNul(SubSeq(s, 1, Len(s) - 1)) ELSE s

\* C.CString(string(b)): a copy of the bytes followed by a terminating NUL
CString(s) == s \o <<0>>

\* the string a C function reads from a char*: the bytes before the first NUL
CStr(buf) ==
    LET nuls == {i \in 1..Len(buf) : buf[i] = 0}
    IN  IF nuls = {} THEN buf
        ELSE SubSeq(buf, 1, (CHOOSE i \in nuls : \A j \in nuls : i <= j) - 1)

\* a C uint32_t: its 32 bits, held as the high and the low 16 of them; the
\* conversion of an integer keeps the value modulo 2^32 (two's complement
\* for a negative one)
uint32_t(x) == [hi |-> (x \div 65536) % 65536, lo |-> x % 65536]

\* a < b and k * a (k small) in uint32_t arithmetic, which wraps at 2^32
u32_lt(a, b) == a.hi < b.hi \/ (a.hi = b.hi /\ a.lo < b.lo)

u32_mul(k, a) ==
    [hi |-> (k * a.hi + (k * a.lo) \div 65536) % 65536, lo |-> (k * a.lo) % 65536]

\* the number a uint32_t below 2^31 stands for
u32_value(a) == a.hi * 65536 + a.lo

\* C.uint32_t(x) of a Go int
CUint32(x) == uint32_t(x)

\* C.argon2_type(x) of a Go int: the enum is a 32-bit unsigned type in cgo
CArgon2Type(x) == uint32_t(x)

\* C.size_t(x) of a Go int (64 bit): the value modulo 2^64
CSizeT(x) ==
    IF x >= 0 /\ x <= 2147483647 THEN x ELSE x % (65536 * 65536 * 65536 * 65536)

(***************************************************************************)
(* Argon2Config, the options and CreateArgon2.                             *)
(***************************************************************************)
NilConf ==
    [isNil |-> TRUE, Iterations |-> 0, Memory |-> 0, Parallelism |-> 0,
     HashLength |-> 0, SaltLength |-> 0, Mode |-> 0, Version |-> 0]

\* an Argon2Option is a closure; it is represented by its constructor and
\* the captured argument
Argon2Iterations(iterations) == [ctor |-> "Argon2Iterations", arg |-> iterations]
Argon2Memory(memory) == [ctor |-> "Argon2Memory", arg |-> memory]
Argon2Parallelism(parallelism) == [ctor |-> "Argon2Parallelism", arg |-> parallelism]
Argon2HashLength(hashLength) == [ctor |-> "Argon2HashLength", arg |-> hashLength]
Argon2SaltLength(saltLength) == [ctor |-> "Argon2SaltLength", arg |-> saltLength]
Argon2Mode(mode) == [ctor |-> "Argon2Mode", arg |-> mode]
Argon2Version(version) == [ctor |-> "Argon2Version", arg |-> version]

\* a mutant of ApplyOption: Argon2HashLength also overwrites SaltLength
ApplyOptionSharedLength(opt, c) ==
    CASE opt.ctor = "Argon2Iterations" -> [c EXCEPT !.Iterations = opt.arg]
      [] opt.ctor = "Argon2Memory" -> [c EXCEPT !.Memory = opt.arg]
      [] opt.ctor = "Argon2Parallelism" -> [c EXCEPT !.Parallelism = opt.arg]
      [] opt.ctor = "Argon2HashLength" ->
            [c EXCEPT !.HashLength = opt.arg, !.SaltLength = opt.arg]
      [] opt.ctor = "Argon2SaltLength" -> [c EXCEPT !.SaltLength = opt.arg]
      [] opt.ctor = "Argon2Mode" -> [c EXCEPT !.Mode = opt.arg]
      [] opt.ctor = "Argon2Version" -> [c EXCEPT !.Version = opt.arg]

\* opt(conf): the body of the closure each constructor returns
ApplyOption(opt, c) ==
    CASE opt.ctor = "Argon2Iterations" -> [c EXCEPT !.Iterations = opt.arg]
      [] opt.ctor = "Argon2Memory" -> [c EXCEPT !.Memory = opt.arg]
      [] opt.ctor = "Argon2Parallelism" -> [c EXCEPT !.Parallelism = opt.arg]
      [] opt.ctor = "Argon2HashLength" -> [c EXCEPT !.HashLength = opt.arg]
      [] opt.ctor = "Argon2SaltLength" -> [c EXCEPT !.SaltLength = opt.arg]
      [] opt.ctor = "Argon2Mode" -> [c EXCEPT !.Mode = opt.arg]
      [] opt.ctor = "Argon2Version" -> [c EXCEPT !.Version = opt.arg]

\* the literal CreateArgon2 starts from
DefaultConf ==
    [isNil |-> FALSE, Iterations |-> 8, Memory |-> 65536, Parallelism |-> 8,
     HashLength |-> 64, SaltLength |-> 64, Mode |-> Argon2ModeID,
     Version |-> Argon2Version13]

\* for _, opt := range options { opt(conf) }
RECURSIVE ApplyOptions(_, _)
ApplyOptions(options, c) ==
    IF options = <<>> THEN c
    ELSE ApplyOptions(Tail(options), ApplyOption(Head(options), c))

\* the Configuration CreateArgon2(options...) binds to the new Hasher
CreateArgon2Conf(options) == ApplyOptions(options, DefaultConf)

(***************************************************************************)
(* The libargon2 primitive, as far as the package calls it.  The memory    *)
(* hard function itself is replaced by Argon2Digest, a keyed checksum of   *)
(* the same inputs that has no collisions on the inputs explored here.     *)
(***************************************************************************)
ARGON2_MIN_OUTLEN == 4
ARGON2_MIN_SALT_LENGTH == 8
ARGON2_SYNC_POINTS == 4
ARGON2_MIN_MEMORY == 2 * ARGON2_SYNC_POINTS
ARGON2_MIN_TIME == 1
ARGON2_MIN_LANES == 1
ARGON2_MAX_LANES == 16777215

\* the texts of the PHC string format
TextArgon2id == <<97, 114, 103, 111, 110, 50, 105, 100>>
TextArgon2i == <<97, 114, 103, 111, 110, 50, 105>>
TextArgon2d == <<97, 114, 103, 111, 110, 50, 100>>
TextDollar == <<36>>
TextV == <<36, 118, 61>>
TextM == <<36, 109, 61>>
TextT == <<44, 116, 61>>
TextP == <<44, 112, 61>>

Argon2_d == uint32_t(0)
Argon2_i == uint32_t(1)
Argon2_id == uint32_t(2)

ValidType(type) == type \in {Argon2_d, Argon2_i, Argon2_id}

\* argon2_type2string(type, 0), for the three types it knows
argon2_type2string(type) ==
    CASE type = Argon2_d -> TextArgon2d
      [] type = Argon2_i -> TextArgon2i
      [] type = Argon2_id -> TextArgon2id

\* the decimal text of a uint32_t, by long division of its two halves
RECURSIVE Decimal(_)
Decimal(n) ==
    IF n.hi = 0 /\ n.lo < 10 THEN <<48 + n.lo>>
    ELSE LET low == (n.hi % 10) * 65536 + n.lo
         IN  Decimal([hi |-> n.hi \div 10, lo |-> low \div 10]) \o <<48 + (low % 10)>>

numlen(n) == Len(Decimal(n))

\* b64len: length of the unpadded base64 text of len bytes
b64len(len) ==
    (len \div 3) * 4 + (CASE len % 3 = 0 -> 0 [] len % 3 = 1 -> 2 [] len % 3 = 2 -> 3)

b64_byte_to_char(x) ==
    CASE x < 26 -> 65 + x
      [] x >= 26 /\ x < 52 -> 97 + (x - 26)
      [] x >= 52 /\ x < 62 -> 48 + (x - 52)
      [] x = 62 -> 43
      [] x = 63 -> 47

\* 255 stands for "not a base64 character"
b64_char_to_byte(c) ==
    CASE c >= 65 /\ c <= 90 -> c - 65
      [] c >= 97 /\ c <= 122 -> c - 97 + 26
      [] c >= 48 /\ c <= 57 -> c - 48 + 52
      [] c = 43 -> 62
      [] c = 47 -> 63
      [] OTHER -> 255

Pow2(n) == CASE n = 0 -> 1 [] n = 2 -> 4 [] n = 4 -> 16 [] n = 6 -> 64 [] n = 8 -> 256

\* to_base64: acc holds the accLen bits not yet written
RECURSIVE to_base64(_, _, _)
to_base64(src, acc, accLen) ==
    IF src = <<>> THEN
        IF accLen > 0 THEN <<b64_byte_to_char((acc * Pow2(6 - accLen)) % 64)>> ELSE <<>>
    ELSE
        LET a == acc * 256 + Head(src)
            l == accLen + 8
        IN  IF l >= 12 THEN
                <<b64_byte_to_char((a \div Pow2(l - 6)) % 64),
                  b64_byte_to_char((a \div Pow2(l - 12)) % 64)>>
                \o to_base64(Tail(src), a % Pow2(l - 12), l - 12)
            ELSE
                <<b64_byte_to_char((a \div Pow2(l - 6)) % 64)>>
                \o to_base64(Tail(src), a % Pow2(l - 6), l - 6)

\* from_base64: decodes the leading base64 characters of src;
\* [ok, bytes, rest]
RECURSIVE from_base64(_, _, _, _)
from_base64(src, acc, accLen, out) ==
    IF src = <<>> \/ b64_char_to_byte(Head(src)) = 255 THEN
        [ok |-> accLen <= 4 /\ acc = 0, bytes |-> out, rest |-> src]
    ELSE
        LET a == acc * 64 + b64_char_to_byte(Head(src))
            l == accLen + 6
        IN  IF l >= 8 THEN
                from_base64(Tail(src), a % Pow2(l - 8), l - 8,
                            Append(out, (a \div Pow2(l - 8)) % 256))
            ELSE from_base64(Tail(src), a, l, out)

\* decode_decimal: [ok, v, rest]; no digits or a leading zero is rejected
RECURSIVE DigitRun(_)
DigitRun(s) ==
    IF s = <<>> \/ Head(s) < 48 \/ Head(s) > 57 THEN <<>>
    ELSE <<Head(s)>> \o DigitRun(Tail(s))

\* the value of a run of digits, in two 16-bit halves; a high half of 65536
\* stands for every value above UINT32_MAX
RECURSIVE DigitsValue(_, _)
DigitsValue(ds, acc) ==
    IF ds = <<>> THEN acc
    ELSE LET low == acc.lo * 10 + (Head(ds) - 48)
             high == acc.hi * 10 + low \div 65536
         IN  DigitsValue(Tail(ds), [hi |-> IF high > 65535 THEN 65536 ELSE high,
                                    lo |-> low % 65536])

\* decode_decimal and the caller's test against UINT32_MAX
decode_decimal(s) ==
    LET ds == DigitRun(s)
        v == DigitsValue(ds, uint32_t(0))
    IN  IF ds = <<>> \/ (Head(ds) = 48 /\ Len(ds) # 1) \/ v.hi > 65535
        THEN [ok |-> FALSE, v |-> uint32_t(0), rest |-> s]
        ELSE [ok |-> TRUE, v |-> v, rest |-> SubSeq(s, Len(ds) + 1, Len(s))]

\* the stand-in for the Argon2 function: outlen bytes determined by every
\* input of the hash
RECURSIVE Mix(_, _)
Mix(xs, h) ==
    IF xs = <<>> THEN h ELSE Mix(Tail(xs), (h * 127 + Head(xs) + 1) % 16777213)

Argon2Digest(type, version, t, m, p, pwd, salt, outlen) ==
    LET seed == Mix(<<p.hi, p.lo, outlen, m.hi, m.lo, t.hi, t.lo, version.hi,
                      version.lo, type.hi, type.lo, Len(salt)>> \o salt
                    \o <<Len(pwd)>> \o pwd, 7)
    IN  [i \in 1..outlen |->
            CASE i % 3 = 1 -> (seed + (i \div 3)) % 256
              [] i % 3 = 2 -> ((seed \div 256) + (i \div 3)) % 256
              [] i % 3 = 0 -> ((seed \div 65536) + (i \div 3)) % 256]

\* validate_inputs, in the order of its checks
validate_inputs(outlen, saltlen, m, t, lanes) ==
    CASE outlen < ARGON2_MIN_OUTLEN -> "ARGON2_OUTPUT_TOO_SHORT"
      [] outlen >= ARGON2_MIN_OUTLEN /\ saltlen < ARGON2_MIN_SALT_LENGTH ->
            "ARGON2_SALT_TOO_SHORT"
      [] OTHER ->
            IF u32_lt(m, uint32_t(ARGON2_MIN_MEMORY)) THEN "ARGON2_MEMORY_TOO_LITTLE"
            ELSE IF u32_lt(m, u32_mul(8, lanes)) THEN "ARGON2_MEMORY_TOO_LITTLE"
            ELSE IF u32_lt(t, uint32_t(ARGON2_MIN_TIME)) THEN "ARGON2_TIME_TOO_SMALL"
            ELSE IF u32_lt(lanes, uint32_t(ARGON2_MIN_LANES)) THEN "ARGON2_LANES_TOO_FEW"
            ELSE IF u32_lt(uint32_t(ARGON2_MAX_LANES), lanes)
                THEN "ARGON2_LANES_TOO_MANY"
            ELSE "ARGON2_OK"

\* argon2_ctx: validation, then the type check, then the hash
argon2_ctx(outlen, saltlen, m, t, lanes, type) ==
    LET v == validate_inputs(outlen, saltlen, m, t, lanes)
    IN  IF v # "ARGON2_OK" THEN v
        ELSE IF ~ValidType(type) THEN "ARGON2_INCORRECT_TYPE"
        ELSE "ARGON2_OK"

\* argon2_encodedlen
argon2_encodedlen(t, m, p, saltlen, hashlen, type) ==
    15 + Len(argon2_type2string(type)) + numlen(t) + numlen(m) + numlen(p)
       + b64len(u32_value(saltlen)) + b64len(u32_value(hashlen))
       + numlen(uint32_t(Argon2VersionDefault)) + 1

\* encode_string
encode_string(type, version, m, t, p, salt, out) ==
    TextDollar \o argon2_type2string(type) \o TextV \o Decimal(version)
    \o TextM \o Decimal(m) \o TextT \o Decimal(t) \o TextP \o Decimal(p)
    \o TextDollar \o to_base64(salt, 0, 0) \o TextDollar \o to_base64(out, 0, 0)

Zeros(n) == [i \in 1..n |-> 0]

\* argon2_hash with hash = NULL: [status, encoded], encoded being the
\* caller's zeroed buffer of encodedlen bytes after the call
argon2_hash(t, m, p, pwd, salt, hashlen, encodedlen, type, version) ==
    LET st == IF hashlen < ARGON2_MIN_OUTLEN THEN "ARGON2_OUTPUT_TOO_SHORT"
              ELSE argon2_ctx(hashlen, Len(salt), m, t, p, type)
    IN  IF st # "ARGON2_OK" THEN [status |-> st, encoded |-> Zeros(encodedlen)]
        ELSE
            LET out == Argon2Digest(type, version, t, m, p, pwd, salt, hashlen)
                text == encode_string(type, version, m, t, p, salt, out)
            IN  IF Len(text) + 1 > encodedlen
                THEN [status |-> "ARGON2_ENCODING_FAIL", encoded |-> Zeros(encodedlen)]
                ELSE [status |-> "ARGON2_OK",
                      encoded |-> text \o Zeros(encodedlen - Len(text))]

\* decode_string: [status, version, m, t, p, salt, out]
DecodeFail ==
    [status |-> "ARGON2_DECODING_FAIL", version |-> uint32_t(0), m |-> uint32_t(0),
     t |-> uint32_t(0), p |-> uint32_t(0), salt |-> <<>>, out |-> <<>>]

Skip(s, n) == SubSeq(s, n + 1, Len(s))

decode_string(str, type) ==
    IF ~ValidType(type) THEN [DecodeFail EXCEPT !.status = "ARGON2_INCORRECT_TYPE"]
    ELSE
    LET ts == TextDollar \o argon2_type2string(type)
    IN  IF ~HasPrefix(str, ts) THEN DecodeFail
        ELSE
        LET s1 == Skip(str, Len(ts))
            hasV == HasPrefix(s1, TextV)
            dv == IF hasV THEN decode_decimal(Skip(s1, Len(TextV)))
                  ELSE [ok |-> TRUE, v |-> uint32_t(Argon2Version10), rest |-> s1]
        IN  IF ~dv.ok \/ ~HasPrefix(dv.rest, TextM) THEN DecodeFail
            ELSE
            LET dm == decode_decimal(Skip(dv.rest, Len(TextM)))
            IN  IF ~dm.ok \/ ~HasPrefix(dm.rest, TextT) THEN DecodeFail
                ELSE
                LET dt == decode_decimal(Skip(dm.rest, Len(TextT)))
                IN  IF ~dt.ok \/ ~HasPrefix(dt.rest, TextP) THEN DecodeFail
                    ELSE
                    LET dp == decode_decimal(Skip(dt.rest, Len(TextP)))
                    IN  IF ~dp.ok \/ ~HasPrefix(dp.rest, TextDollar) THEN DecodeFail
                        ELSE
                        LET ds == from_base64(Skip(dp.rest, 1), 0, 0, <<>>)
                        IN  IF ~ds.ok \/ ~HasPrefix(ds.rest, TextDollar) THEN DecodeFail
                            ELSE
                            LET do == from_base64(Skip(ds.rest, 1), 0, 0, <<>>)
                                val == validate_inputs(Len(do.bytes), Len(ds.bytes),
                                                       dm.v, dt.v, dp.v)
                            IN  IF ~do.ok THEN DecodeFail
                                ELSE IF val # "ARGON2_OK"
                                THEN [DecodeFail EXCEPT !.status = val]
                                ELSE IF do.rest # <<>> THEN DecodeFail
                                ELSE [status |-> "ARGON2_OK", version |-> dv.v,
                                      m |-> dm.v, t |-> dt.v, p |-> dp.v,
                                      salt |-> ds.bytes, out |-> do.bytes]

\* argon2_verify(encoded, pwd, pwdlen, type): the status it returns
argon2_verify(encoded, pwd, type) ==
    LET ctx == decode_string(CStr(encoded), type)
    IN  IF ctx.status # "ARGON2_OK" THEN ctx.status
        ELSE IF Argon2Digest(type, ctx.version, ctx.t, ctx.m, ctx.p, pwd, ctx.salt,
                             Len(ctx.out)) # ctx.out
        THEN "ARGON2_VERIFY_MISMATCH"
        ELSE "ARGON2_OK"

\* argon2_error_message
argon2_error_message(status) ==
    CASE status = "ARGON2_OK" -> "OK"
      [] status = "ARGON2_OUTPUT_TOO_SHORT" -> "Output is too short"
      [] status = "ARGON2_SALT_TOO_SHORT" -> "Salt is too short"
      [] status = "ARGON2_MEMORY_TOO_LITTLE" -> "Memory cost is too small"
      [] status = "ARGON2_TIME_TOO_SMALL" -> "Time cost is too small"
      [] status = "ARGON2_LANES_TOO_FEW" -> "Too few lanes"
      [] status = "ARGON2_LANES_TOO_MANY" -> "Too many lanes"
      [] status = "ARGON2_INCORRECT_TYPE" ->
            "There is no such version of Argon2"
      [] status = "ARGON2_ENCODING_FAIL" -> "Encoding failed"
      [] status = "ARGON2_DECODING_FAIL" -> "Decoding failed"
      [] status = "ARGON2_VERIFY_MISMATCH" ->
            "The password does not match the supplied hash"
      [] OTHER -> "Unknown error code"

(***************************************************************************)
(* getArgon2Mode and the result mappings of Encode and Verify.             *)
(***************************************************************************)
PrefixArgon2id == <<36, 97, 114, 103, 111, 110, 50, 105, 100>>
PrefixArgon2i == <<36, 97, 114, 103, 111, 110, 50, 105>>
PrefixArgon2d == <<36, 97, 114, 103, 111, 110, 50, 100>>

\* a mutant of getArgon2Mode: the "$argon2i" prefix is tried before "$argon2id"
getArgon2ModeShortFirst(hash) ==
    IF hash.isNil \/ Len(hash.data) = 0
    THEN [mode |-> -1, err |-> ErrInvalidArgon2Mode]
    ELSE IF HasPrefix(hash.data, PrefixArgon2i)
    THEN [mode |-> Argon2ModeI, err |-> NoError]
    ELSE IF HasPrefix(hash.data, PrefixArgon2id)
    THEN [mode |-> Argon2ModeID, err |-> NoError]
    ELSE IF HasPrefix(hash.data, PrefixArgon2d)
    THEN [mode |-> Argon2ModeD, err |-> NoError]
    ELSE [mode |-> -1, err |-> ErrInvalidArgon2Mode]

\* a mutant of getArgon2Mode: the whole hash is compared with the prefix
getArgon2ModeWholeHash(hash) ==
    IF hash.isNil \/ Len(hash.data) = 0
    THEN [mode |-> -1, err |-> ErrInvalidArgon2Mode]
    ELSE IF hash.data = PrefixArgon2id
    THEN [mode |-> Argon2ModeID, err |-> NoError]
    ELSE IF hash.data = PrefixArgon2i
    THEN [mode |-> Argon2ModeI, err |-> NoError]
    ELSE IF hash.data = PrefixArgon2d
    THEN [mode |-> Argon2ModeD, err |-> NoError]
    ELSE [mode |-> -1, err |-> ErrInvalidArgon2Mode]

\* getArgon2Mode(hash): [mode, err]
getArgon2Mode(hash) ==
    IF hash.isNil \/ Len(hash.data) = 0
    THEN [mode |-> -1, err |-> ErrInvalidArgon2Mode]
    ELSE IF HasPrefix(hash.data, PrefixArgon2id)
    THEN [mode |-> Argon2ModeID, err |-> NoError]
    ELSE IF HasPrefix(hash.data, PrefixArgon2i)
    THEN [mode |-> Argon2ModeI, err |-> NoError]
    ELSE IF HasPrefix(hash.data, PrefixArgon2d)
    THEN [mode |-> Argon2ModeD, err |-> NoError]
    ELSE [mode |-> -1, err |-> ErrInvalidArgon2Mode]

\* a mutant of EncodePrecondition: the salt length is checked before the input
EncodePreconditionSaltFirst(c, raw) ==
    IF c.isNil THEN ErrNotConfigured
    ELSE IF c.SaltLength = 0 THEN ErrNotConfigured
    ELSE IF raw.isNil \/ Len(raw.data) = 0 THEN ErrEmptyInput
    ELSE NoError

\* the error of the first failing precondition of Encode, NoError when all pass
EncodePrecondition(c, raw) ==
    IF c.isNil THEN ErrNotConfigured
    ELSE IF raw.isNil \/ Len(raw.data) = 0 THEN ErrEmptyInput
    ELSE IF c.SaltLength = 0 THEN ErrNotConfigured
    ELSE NoError

\* the call Encode makes to argon2_encodedlen
EncodedLength(c, salt) ==
    argon2_encodedlen(CUint32(c.Iterations), CUint32(c.Memory),
                      CUint32(c.Parallelism), CUint32(Len(salt)),
                      CUint32(c.HashLength), CArgon2Type(c.Mode))

\* the call Encode makes to argon2_hash: [status, encoded]
EncodeDerive(c, raw, salt) ==
    argon2_hash(CUint32(c.Iterations), CUint32(c.Memory), CUint32(c.Parallelism),
                raw.data, salt, CSizeT(c.HashLength), EncodedLength(c, salt),
                CArgon2Type(c.Mode), CUint32(c.Version))

\* what the two calls of Encode receive: the converted values, the salt, and
\* the length of the buffer made for the encoded hash
EncodeArguments(c, salt) ==
    [t_cost |-> CUint32(c.Iterations), m_cost |-> CUint32(c.Memory),
     parallelism |-> CUint32(c.Parallelism), salt |-> salt,
     saltlen |-> CUint32(Len(salt)), hashlen32 |-> CUint32(c.HashLength),
     hashlen |-> CSizeT(c.HashLength), type |-> CArgon2Type(c.Mode),
     version |-> CUint32(c.Version), encodedlen |-> CSizeT(EncodedLength(c, salt)),
     buffer |-> EncodedLength(c, salt)]

\* a mutant of EncodeReturn: the buffer is returned without bytes.TrimRight
EncodeReturnUntrimmed(result) ==
    IF result.status # "ARGON2_OK"
    THEN [hash |-> NilSlice, err |-> errorsNew(argon2_error_message(result.status))]
    ELSE [hash |-> Slice(result.encoded), err |-> NoError]

\* what Encode returns after argon2_hash: [hash, err]
EncodeReturn(result) ==
    IF result.status # "ARGON2_OK"
    THEN [hash |-> NilSlice, err |-> errorsNew(argon2_error_message(result.status))]
    ELSE [hash |-> Slice(TrimRightNul(result.encoded)), err |-> NoError]

\* a mutant of VerifyPrecondition: the arguments are checked before h.conf
VerifyPreconditionArgsFirst(c, raw, hash) ==
    IF raw.isNil \/ Len(raw.data) = 0 THEN [mode |-> -1, err |-> ErrEmptyInput]
    ELSE IF hash.isNil \/ Len(hash.data) = 0 THEN [mode |-> -1, err |-> ErrEmptyHash]
    ELSE IF c.isNil THEN [mode |-> -1, err |-> ErrNotConfigured]
    ELSE getArgon2Mode(hash)

\* the first failing precondition of Verify, with the parsed mode
VerifyPrecondition(c, raw, hash) ==
    IF c.isNil THEN [mode |-> -1, err |-> ErrNotConfigured]
    ELSE IF raw.isNil \/ Len(raw.data) = 0 THEN [mode |-> -1, err |-> ErrEmptyInput]
    ELSE IF hash.isNil \/ Len(hash.data) = 0 THEN [mode |-> -1, err |-> ErrEmptyHash]
    ELSE getArgon2Mode(hash)

\* a mutant of VerifyMode: the Hasher's configured Mode is handed over
VerifyModeConfigured(c, mode) == c.Mode

\* the variant Verify hands to argon2_verify
VerifyMode(c, mode) == mode

\* the call Verify makes to argon2_verify: the status
VerifyCheck(c, raw, hash, mode) ==
    argon2_verify(CString(hash.data), raw.data, CArgon2Type(VerifyMode(c, mode)))

\* a mutant of VerifyReturn: a mismatch is reported as an error
VerifyReturnMismatchAsError(result) ==
    IF result = "ARGON2_OK" THEN [ok |-> TRUE, err |-> NoError]
    ELSE [ok |-> FALSE, err |-> errorsNew(argon2_error_message(result))]

\* what Verify returns after argon2_verify: [ok, err]
VerifyReturn(result) ==
    IF result = "ARGON2_OK" THEN [ok |-> TRUE, err |-> NoError]
    ELSE IF result = "ARGON2_VERIFY_MISMATCH" THEN [ok |-> FALSE, err |-> NoError]
    ELSE [ok |-> FALSE, err |-> errorsNew(argon2_error_message(result))]

\* Verify(raw, hash) on a Hasher with configuration c, run alone: [ok, err]
VerifyAlone(c, raw, hash) ==
    LET pre == VerifyPrecondition(c, raw, hash)
    IN  IF pre.err # NoError THEN [ok |-> FALSE, err |-> pre.err]
        ELSE VerifyReturn(VerifyCheck(c, raw, hash, pre.mode))

\* Encode(raw) on a Hasher with configuration c, run alone, when the random
\* source answers with the bytes draw or with the error drawErr: [hash, err]
\* (for the calls that return: a negative salt length panics in make)
EncodeAlone(c, raw, draw, drawErr) ==
    LET e == EncodePrecondition(c, raw)
    IN  IF e # NoError THEN [hash |-> NilSlice, err |-> e]
        ELSE IF drawErr # NoError THEN [hash |-> NilSlice, err |-> drawErr]
        ELSE EncodeReturn(EncodeDerive(c, raw, draw))

(***************************************************************************)
(* The random source.  rand.Reader is a package variable of crypto/rand;   *)
(* the system reader fills the buffer, the failing reader of the tests     *)
(* returns an error and writes nothing.                                    *)
(***************************************************************************)
ErrReaderFailed == [origin |-> "rand.Reader", msg |-> "failed"]

\* the buffers the system reader can produce for n bytes
RandomBytes(n) == {[i \in 1..n |-> (k * (i + 16)) % 256] : k \in 0..(NumSalts - 1)}

(***************************************************************************)
(* Inputs.                                                                 *)
(***************************************************************************)
Hashers == {1, 2}
Procs == 1..NumProcs

SecretBytes == {0, 97}

RECURSIVE SeqsUpTo(_, _)
SeqsUpTo(S, n) ==
    IF n = 0 THEN {<<>>}
    ELSE LET shorter == SeqsUpTo(S, n - 1)
         IN  shorter \cup {Append(q, x) : q \in shorter, x \in S}

\* the secrets handed to Encode and Verify: nil, empty and short ones
Secrets == {NilSlice} \cup {Slice(q) : q \in SeqsUpTo(SecretBytes, MaxSecretLen)}

\* the cheapest configuration libargon2 accepts
SmallOptions ==
    <<Argon2Iterations(1), Argon2Memory(8), Argon2Parallelism(1),
      Argon2HashLength(4), Argon2SaltLength(8)>>

\* the option lists the Hashers of Spec and SpecConc are built with
OptionMenu ==
    { SmallOptions,
      SmallOptions \o <<Argon2Mode(Argon2ModeI), Argon2Version(Argon2Version10)>>,
      SmallOptions \o <<Argon2Memory(0)>>,
      SmallOptions \o <<Argon2SaltLength(0)>>,
      SmallOptions \o <<Argon2SaltLength(-1)>>,
      SmallOptions \o <<Argon2Iterations(-1)>>,
      <<Argon2Mode(Argon2ModeD), Argon2Iterations(2), Argon2HashLength(5),
        Argon2SaltLength(9)>> }

\* the option lists of the second Hasher
OtherMenu ==
    { SmallOptions \o <<Argon2Mode(Argon2ModeI), Argon2Version(Argon2Version10)>>,
      SmallOptions \o <<Argon2Memory(0)>> }

\* the options and values CreateArgon2 is tried with in SpecCreate
OptionValues == {-1, 0, 7}
OptionChoices ==
    UNION {{Argon2Iterations(v), Argon2Memory(v), Argon2Parallelism(v),
            Argon2HashLength(v), Argon2SaltLength(v), Argon2Mode(v),
            Argon2Version(v)} : v \in OptionValues}

\* hashes handed to Verify that no Encode of the model produced
LiteralSalt == <<1, 2, 3, 4, 5, 6, 7, 8>>
LiteralOut == <<9, 9, 9, 9>>
WellFormedTail ==
    TextV \o Decimal(uint32_t(Argon2Version13)) \o TextM \o Decimal(uint32_t(8))
    \o TextT \o Decimal(uint32_t(1)) \o TextP \o Decimal(uint32_t(1))
    \o TextDollar \o to_base64(LiteralSalt, 0, 0)
    \o TextDollar \o to_base64(LiteralOut, 0, 0)
\* "$argon2k$...": an unknown variant
BadModeEncoding == <<36, 97, 114, 103, 111, 110, 50, 107>> \o WellFormedTail
\* "$argon2id$v=19$m=0,...": a memory cost of 0
BadMemoryEncoding ==
    encode_string(Argon2_id, uint32_t(Argon2Version13), uint32_t(0), uint32_t(1),
                  uint32_t(1), LiteralSalt, LiteralOut)
\* a well-formed argon2i hash of some other secret
IncorrectEncoding ==
    encode_string(Argon2_i, uint32_t(Argon2Version13), uint32_t(8), uint32_t(1),
                  uint32_t(1), LiteralSalt, LiteralOut)
\* "$argon2id" and nothing else
TruncatedEncoding == PrefixArgon2id

HashLiterals ==
    {NilSlice, Slice(<<>>), Slice(BadModeEncoding), Slice(BadMemoryEncoding),
     Slice(IncorrectEncoding), Slice(TruncatedEncoding)}

(***************************************************************************)
(* State.                                                                  *)
(***************************************************************************)
VARIABLES
    conf,        \* conf[h]: the Argon2Config h.conf points to (NilConf: nil)
    options,     \* options[h]: the option list hasher h was created with
    randReader,  \* rand.Reader: "system" or "failing"
    call,        \* call[p]: the call caller p is in or has returned from
    salt         \* salt[s]: the salt buffers of the calls in flight

vars == <<conf, options, randReader, call, salt>>

NoOrigin == [made |-> FALSE, raw |-> <<>>, by |-> 0]

\* no call to the primitive made
NoArguments ==
    [t_cost |-> uint32_t(0), m_cost |-> uint32_t(0), parallelism |-> uint32_t(0),
     salt |-> <<>>, saltlen |-> uint32_t(0), hashlen32 |-> uint32_t(0),
     hashlen |-> 0, type |-> uint32_t(0), version |-> uint32_t(0),
     encodedlen |-> 0, buffer |-> 0]

\* a caller that has not called yet
Idle ==
    [pc |-> "idle", op |-> "none", h |-> 0, raw |-> NilSlice, hash |-> NilSlice,
     origin |-> NoOrigin, c |-> NilConf, mode |-> -1, draw |-> <<>>,
     drawErr |-> NoError, primMode |-> -1, primArgs |-> NoArguments,
     overlap |-> FALSE,
     status |-> "none", randReads |-> 0, primCalls |-> 0,
     retHash |-> NilSlice, retOK |-> FALSE, retErr |-> NoError]

\* a call returns: its frame keeps the arguments and gets the results
Returned(frame, hash, ok, err) ==
    [frame EXCEPT !.pc = "returned", !.retHash = hash, !.retOK = ok, !.retErr = err]

CanCall(p) == call[p].pc \in {"idle", "returned"}

InFlight(p) == call[p].pc \in {"EncodeSalt", "EncodeHash", "VerifyCall"}

\* the frame of caller p taking a step, marked when another call is in flight
Step(p) ==
    [call[p] EXCEPT !.overlap = @ \/ \E q \in Procs \ {p} : InFlight(q)]

\* the state after every Hasher h has been created by CreateArgon2 with an
\* option list of menus[h], before any call
InitWith(menus) ==
    /\ options \in [Hashers -> OptionMenu]
    /\ \A h \in Hashers : options[h] \in menus[h]
    /\ conf = [h \in Hashers |-> CreateArgon2Conf(options[h])]
    /\ randReader = "system"
    /\ call = [p \in Procs |-> Idle]
    /\ salt = [p \in Procs |-> <<>>]

(***************************************************************************)
(* Encode.                                                                 *)
(***************************************************************************)
\* a mutant of SaltSlot: one salt buffer kept for all calls
SaltSlotShared(p) == 1

\* var salt = make([]byte, c.SaltLength): each call allocates its own buffer
SaltSlot(p) == p

\* a mutant of EncodeSaltFailure: the reader's error is wrapped in a new one
EncodeSaltFailureWrapped(err) == [hash |-> NilSlice, err |-> errorsNew(err.msg)]

\* if _, err = rand.Read(salt); err != nil { return nil, err }
EncodeSaltFailure(err) == [hash |-> NilSlice, err |-> err]

\* Encode is called; the three precondition checks
EncodeEnter(p, h, raw) ==
    /\ CanCall(p)
    /\ LET frame == [Idle EXCEPT !.op = "Encode", !.h = h, !.raw = raw, !.c = conf[h]]
           e == EncodePrecondition(conf[h], raw)
       IN  call' = [call EXCEPT ![p] =
                       IF e # NoError THEN Returned(frame, NilSlice, FALSE, e)
                       ELSE [frame EXCEPT !.pc = "EncodeSalt"]]
    /\ UNCHANGED <<conf, options, randReader, salt>>

\* the salt buffer is made and filled from rand.Reader
EncodeSalt(p) ==
    /\ call[p].pc = "EncodeSalt"
    /\ LET frame == Step(p)
       IN  IF frame.c.SaltLength < 0 THEN
               \* make([]byte, n) with n < 0 panics
               /\ call' = [call EXCEPT ![p] = [frame EXCEPT !.pc = "panicked"]]
               /\ salt' = salt
           ELSE IF randReader = "failing" THEN
               LET r == EncodeSaltFailure(ErrReaderFailed)
               IN  /\ call' = [call EXCEPT ![p] =
                          Returned([frame EXCEPT !.randReads = @ + 1,
                                                 !.drawErr = ErrReaderFailed],
                                   r.hash, FALSE, r.err)]
                   /\ salt' = [salt EXCEPT ![SaltSlot(p)] = <<>>]
           ELSE
               \E b \in RandomBytes(frame.c.SaltLength) :
                   /\ call' = [call EXCEPT ![p] =
                          [frame EXCEPT !.pc = "EncodeHash", !.draw = b,
                                        !.randReads = @ + 1]]
                   /\ salt' = [salt EXCEPT ![SaltSlot(p)] = b]
    /\ UNCHANGED <<conf, options, randReader>>

\* argon2_encodedlen, argon2_hash, and the return
EncodeHash(p) ==
    /\ call[p].pc = "EncodeHash"
    /\ LET frame == Step(p)
           result == EncodeDerive(frame.c, frame.raw, salt[SaltSlot(p)])
           r == EncodeReturn(result)
       IN  call' = [call EXCEPT ![p] =
                       Returned([frame EXCEPT !.status = result.status,
                                              !.primArgs =
                                                  EncodeArguments(frame.c,
                                                      salt[SaltSlot(p)]),
                                              !.primCalls = @ + 1],
                                r.hash, FALSE, r.err)]
    /\ salt' = [salt EXCEPT ![SaltSlot(p)] = <<>>]
    /\ UNCHANGED <<conf, options, randReader>>

(***************************************************************************)
(* Verify.                                                                 *)
(***************************************************************************)
\* the hashes a caller can hand to Verify: the literals, and the hashes the
\* callers hold from an Encode that succeeded (with the secret and the
\* Hasher that made them)
HashArgs(literals) ==
    {[hash |-> l, origin |-> NoOrigin] : l \in literals}
    \cup {[hash |-> call[q].retHash,
           origin |-> [made |-> TRUE, raw |-> call[q].raw.data, by |-> call[q].h]] :
          q \in {r \in Procs : /\ call[r].pc = "returned"
                               /\ call[r].op = "Encode"
                               /\ call[r].retErr = NoError}}

\* Verify is called; the precondition checks and getArgon2Mode
VerifyEnter(p, h, raw, arg) ==
    /\ CanCall(p)
    /\ LET frame == [Idle EXCEPT !.op = "Verify", !.h = h, !.raw = raw,
                                 !.hash = arg.hash, !.origin = arg.origin,
                                 !.c = conf[h]]
           pre == VerifyPrecondition(conf[h], raw, arg.hash)
       IN  call' = [call EXCEPT ![p] =
                       IF pre.err # NoError
                       THEN Returned(frame, NilSlice, FALSE, pre.err)
                       ELSE [frame EXCEPT !.pc = "VerifyCall", !.mode = pre.mode]]
    /\ UNCHANGED <<conf, options, randReader, salt>>

\* argon2_verify and the return
VerifyCall(p) ==
    /\ call[p].pc = "VerifyCall"
    /\ LET frame == Step(p)
           result == VerifyCheck(frame.c, frame.raw, frame.hash, frame.mode)
           r == VerifyReturn(result)
       IN  call' = [call EXCEPT ![p] =
                       Returned([frame EXCEPT !.status = result,
                                              !.primMode =
                                                  VerifyMode(frame.c, frame.mode),
                                              !.primCalls = @ + 1],
                                NilSlice, r.ok, r.err)]
    /\ UNCHANGED <<conf, options, randReader, salt>>

(***************************************************************************)
(* What the package's own tests do to a Hasher and to the random source.   *)
(***************************************************************************)
\* suite.hasher.(*argon2Hasher).conf = nil
ClearConf(h) ==
    /\ ~conf[h].isNil
    /\ conf' = [conf EXCEPT ![h] = NilConf]
    /\ UNCHANGED <<options, randReader, call, salt>>

\* rand.Reader = &failingReader{} and rand.Reader = reader
SetRandReader(r) ==
    /\ r # randReader
    /\ randReader' = r
    /\ UNCHANGED <<conf, options, call, salt>>

(***************************************************************************)
(* Spec: one caller, two Hashers.                                          *)
(***************************************************************************)
Init == InitWith([h \in Hashers |-> IF h = 1 THEN OptionMenu ELSE OtherMenu])

Next ==
    \/ \E h \in Hashers, raw \in Secrets : EncodeEnter(1, h, raw)
    \/ EncodeSalt(1)
    \/ EncodeHash(1)
    \/ \E h \in Hashers, raw \in Secrets, arg \in HashArgs(HashLiterals) :
            VerifyEnter(1, h, raw, arg)
    \/ VerifyCall(1)
    \/ \E h \in Hashers : ClearConf(h)
    \/ \E r \in {"system", "failing"} : SetRandReader(r)

Spec == Init /\ [][Next]_vars

(***************************************************************************)
(* SpecConc: NumProcs callers interleave their calls on Hasher 1.          *)
(***************************************************************************)
ConcMenu == {SmallOptions, SmallOptions \o <<Argon2Memory(0)>>}
ConcSecrets == {Slice(<<>>), Slice(<<97>>)}
ConcLiterals == {Slice(BadMemoryEncoding)}

InitConc == InitWith([h \in Hashers |-> IF h = 1 THEN ConcMenu ELSE {SmallOptions}])

NextConc ==
    \/ \E p \in Procs, raw \in ConcSecrets : EncodeEnter(p, 1, raw)
    \/ \E p \in Procs : EncodeSalt(p)
    \/ \E p \in Procs : EncodeHash(p)
    \/ \E p \in Procs, raw \in ConcSecrets, arg \in HashArgs(ConcLiterals) :
            VerifyEnter(p, 1, raw, arg)
    \/ \E p \in Procs : VerifyCall(p)
    \/ \E r \in {"system", "failing"} : SetRandReader(r)

SpecConc == InitConc /\ [][NextConc]_vars

(***************************************************************************)
(* SpecCreate: CreateArgon2 with every option list up to MaxOpts options.  *)
(***************************************************************************)
\* h := CreateArgon2(opts...), for a variable h that holds no Hasher yet
CreateArgon2(h, opts) ==
    /\ conf[h].isNil
    /\ conf' = [conf EXCEPT ![h] = CreateArgon2Conf(opts)]
    /\ options' = [options EXCEPT ![h] = opts]
    /\ UNCHANGED <<randReader, call, salt>>

InitCreate ==
    /\ conf = [h \in Hashers |-> NilConf]
    /\ options = [h \in Hashers |-> <<>>]
    /\ randReader = "system"
    /\ call = [p \in Procs |-> Idle]
    /\ salt = [p \in Procs |-> <<>>]

NextCreate == \E opts \in SeqsUpTo(OptionChoices, MaxOpts) : CreateArgon2(1, opts)

SpecCreate == InitCreate /\ [][NextCreate]_vars

(***************************************************************************)
(* SpecMode: getArgon2Mode on its own, as TestGetArgon2Mode calls it.      *)
(***************************************************************************)
\* the bytes that follow a stem: "$", "d" and "i"
ModeTailBytes == {36, 100, 105}

ModeTails == SeqsUpTo(ModeTailBytes, MaxTailLen)

\* the beginnings of the inputs: every prefix of "$argon2id" (the empty one
\* and "$argon2i" among them), "$argon2d", an unknown variant "$argon2k", and
\* a variant name without its "$"
ModeStems ==
    {SubSeq(PrefixArgon2id, 1, n) : n \in 0..Len(PrefixArgon2id)}
    \cup {PrefixArgon2d,
          SubSeq(PrefixArgon2d, 1, 7) \o <<107>>,
          Tail(PrefixArgon2id)}

ModeInputs == {NilSlice} \cup {Slice(st \o t) : st \in ModeStems, t \in ModeTails}

\* mode, err := getArgon2Mode(hash)
GetMode(p, hash) ==
    /\ CanCall(p)
    /\ LET r == getArgon2Mode(hash)
       IN  call' = [call EXCEPT ![p] =
                       Returned([Idle EXCEPT !.op = "getArgon2Mode", !.hash = hash,
                                             !.mode = r.mode],
                                NilSlice, FALSE, r.err)]
    /\ UNCHANGED <<conf, options, randReader, salt>>

InitMode == InitWith([h \in Hashers |-> {SmallOptions}])

NextMode == \E hash \in ModeInputs : GetMode(1, hash)

SpecMode == InitMode /\ [][NextMode]_vars

(***************************************************************************)
(* Properties.                                                             *)
(***************************************************************************)
NonEmpty(b) == ~b.isNil /\ Len(b.data) > 0

ReturnedFrom(p, op) == call[p].pc = "returned" /\ call[p].op = op

\* C1: when a Hasher's Encode(S1) succeeded with hash h, Verify(S2, h) on
\* that Hasher with a non-empty S2 returns (true, nil) if S1 = S2 and
\* (false, nil) if S1 # S2, whatever salt was drawn.
C1_RoundTrip ==
    \A p \in Procs :
        LET f == call[p]
        IN  (/\ ReturnedFrom(p, "Verify")
             /\ f.origin.made /\ f.origin.by = f.h
             /\ ~f.c.isNil /\ NonEmpty(f.raw))
            => /\ f.retErr = NoError
               /\ f.retOK = (f.raw.data = f.origin.raw)

\* a Verify of the encoded secret on the Hasher that encoded it has matched
C1_Witness ==
    \E p \in Procs :
        /\ ReturnedFrom(p, "Verify")
        /\ call[p].origin.made /\ call[p].origin.by = call[p].h
        /\ call[p].raw.data = call[p].origin.raw
        /\ call[p].primCalls = 1
        /\ call[p].retOK

\* C2: once the preconditions passed, Verify returns (true, nil) exactly when
\* argon2_verify returned ARGON2_OK, (false, nil) exactly when it returned
\* ARGON2_VERIFY_MISMATCH, and (false, err) with err the primitive's message
\* for every other status; it never returns true with a non-nil error.
C2_VerifyFailClosed ==
    \A p \in Procs :
        LET f == call[p]
        IN  ReturnedFrom(p, "Verify") =>
                /\ ~(f.retOK /\ f.retErr # NoError)
                /\ f.primCalls = 1 =>
                    /\ (f.retOK /\ f.retErr = NoError) <=> f.status = "ARGON2_OK"
                    /\ (~f.retOK /\ f.retErr = NoError)
                           <=> f.status = "ARGON2_VERIFY_MISMATCH"
                    /\ f.status \notin {"ARGON2_OK", "ARGON2_VERIFY_MISMATCH"} =>
                           /\ ~f.retOK
                           /\ f.retErr # NoError
                           /\ f.retErr.msg = argon2_error_message(f.status)

\* a Verify of a hash whose memory cost is 0 has returned the primitive's error
C2_Witness ==
    \E p \in Procs :
        /\ ReturnedFrom(p, "Verify")
        /\ call[p].hash = Slice(BadMemoryEncoding)
        /\ call[p].status = "ARGON2_MEMORY_TOO_LITTLE"
        /\ call[p].retErr.msg = "Memory cost is too small"

\* the configurations a second Hasher may have
OtherConfs == {CreateArgon2Conf(o) : o \in OptionMenu}

\* C3: Verify hands argon2_verify the variant parsed from the hash's prefix,
\* and the result of Verify(secret, hash) on a Hasher with a non-nil
\* configuration is the result on any Hasher with another configuration.
C3_VariantFromHash ==
    \A p \in Procs :
        LET f == call[p]
        IN  (ReturnedFrom(p, "Verify") /\ ~f.c.isNil) =>
                /\ f.primCalls = 1 => f.primMode = getArgon2Mode(f.hash).mode
                /\ \A c2 \in OtherConfs :
                       VerifyAlone(c2, f.raw, f.hash) = [ok |-> f.retOK, err |-> f.retErr]

\* a hash made under one variant has verified on a Hasher configured with
\* another variant
C3_Witness ==
    \E p \in Procs :
        /\ ReturnedFrom(p, "Verify")
        /\ call[p].origin.made
        /\ call[p].primCalls = 1
        /\ call[p].primMode # call[p].c.Mode
        /\ call[p].retOK /\ call[p].retErr = NoError

KnownPrefix(b) ==
    \/ HasPrefix(b.data, PrefixArgon2id)
    \/ HasPrefix(b.data, PrefixArgon2i)
    \/ HasPrefix(b.data, PrefixArgon2d)

\* C4: Verify reports the first failing precondition in the order: cleared
\* configuration (NotConfigured), empty or nil secret (EmptyInput), empty or
\* nil hash (EmptyHash), unknown variant prefix (InvalidVariant); in each case
\* the result is false and argon2_verify is not called.
C4_VerifyPreconditionOrder ==
    \A p \in Procs :
        LET f == call[p]
            failed == f.retOK = FALSE /\ f.primCalls = 0
        IN  ReturnedFrom(p, "Verify") =>
                /\ f.c.isNil => f.retErr = ErrNotConfigured /\ failed
                /\ (~f.c.isNil /\ ~NonEmpty(f.raw)) =>
                       f.retErr = ErrEmptyInput /\ failed
                /\ (~f.c.isNil /\ NonEmpty(f.raw) /\ ~NonEmpty(f.hash)) =>
                       f.retErr = ErrEmptyHash /\ failed
                /\ (~f.c.isNil /\ NonEmpty(f.raw) /\ NonEmpty(f.hash)
                    /\ ~KnownPrefix(f.hash)) =>
                       f.retErr = ErrInvalidArgon2Mode /\ failed

\* a Verify with an empty secret and an empty hash on a Hasher whose
\* configuration was cleared has returned
C4_Witness ==
    \E p \in Procs :
        /\ ReturnedFrom(p, "Verify")
        /\ call[p].c.isNil
        /\ ~NonEmpty(call[p].raw) /\ ~NonEmpty(call[p].hash)
        /\ call[p].retErr = ErrNotConfigured

\* C5: Encode reports the first failing precondition in the order: cleared
\* configuration (NotConfigured), empty or nil secret (EmptyInput), salt
\* length 0 (NotConfigured); in each case no hash is returned and neither the
\* random source nor the primitive is called.
C5_EncodePreconditionOrder ==
    \A p \in Procs :
        LET f == call[p]
            failed == f.retHash = NilSlice /\ f.randReads = 0 /\ f.primCalls = 0
        IN  ReturnedFrom(p, "Encode") =>
                /\ f.c.isNil => f.retErr = ErrNotConfigured /\ failed
                /\ (~f.c.isNil /\ ~NonEmpty(f.raw)) =>
                       f.retErr = ErrEmptyInput /\ failed
                /\ (~f.c.isNil /\ NonEmpty(f.raw) /\ f.c.SaltLength = 0) =>
                       f.retErr = ErrNotConfigured /\ failed

\* an Encode of an empty secret on a Hasher with salt length 0 has returned
C5_Witness ==
    \E p \in Procs :
        /\ ReturnedFrom(p, "Encode")
        /\ ~call[p].c.isNil /\ call[p].c.SaltLength = 0
        /\ ~NonEmpty(call[p].raw)
        /\ call[p].retErr = ErrEmptyInput

\* C6: on a Hasher whose salt length is zero or negative, Encode of a
\* non-empty secret ends by returning NotConfigured and no hash, without
\* drawing a salt or calling the primitive.
C6_NonPositiveSaltLength ==
    \A p \in Procs :
        LET f == call[p]
        IN  (/\ f.op = "Encode" /\ ~InFlight(p)
             /\ ~f.c.isNil /\ f.c.SaltLength <= 0 /\ NonEmpty(f.raw))
            => /\ f.pc = "returned"
               /\ f.retErr = ErrNotConfigured
               /\ f.retHash = NilSlice
               /\ f.randReads = 0 /\ f.primCalls = 0

\* C7: every return of Encode is (nil, error) or (hash, nil); a returned hash
\* does not end in a NUL byte; when argon2_hash reports a status other than
\* ARGON2_OK, Encode returns no hash and an error with the primitive's message.
C7_EncodeAllOrNothing ==
    \A p \in Procs :
        LET f == call[p]
        IN  ReturnedFrom(p, "Encode") =>
                /\ \/ f.retHash.isNil /\ f.retErr # NoError
                   \/ ~f.retHash.isNil /\ f.retErr = NoError
                /\ f.retErr = NoError =>
                       /\ Len(f.retHash.data) > 0
                       /\ f.retHash.data[Len(f.retHash.data)] # 0
                /\ (f.primCalls = 1 /\ f.status # "ARGON2_OK") =>
                       /\ f.retHash.isNil
                       /\ f.retErr # NoError
                       /\ f.retErr.msg = argon2_error_message(f.status)

\* an Encode has returned a hash, and it is the PHC text of its inputs
C7_Witness ==
    \E p \in Procs :
        /\ ReturnedFrom(p, "Encode")
        /\ call[p].retErr = NoError
        /\ call[p].primCalls = 1
        /\ HasPrefix(call[p].retHash.data,
                     TextDollar \o argon2_type2string(CArgon2Type(call[p].c.Mode)))
        /\ decode_string(call[p].retHash.data, CArgon2Type(call[p].c.Mode)).salt
               = call[p].draw

\* C8: when the random source fails, Encode returns the source's error value
\* itself and no hash, argon2_hash is not called, and the source is read once.
C8_RandomFailurePropagated ==
    \A p \in Procs :
        LET f == call[p]
        IN  (ReturnedFrom(p, "Encode") /\ f.drawErr # NoError) =>
                /\ f.retErr = f.drawErr
                /\ f.retHash = NilSlice
                /\ f.primCalls = 0
                /\ f.randReads = 1

\* an Encode that met the failing reader has returned
C8_Witness ==
    \E p \in Procs :
        /\ ReturnedFrom(p, "Encode")
        /\ call[p].drawErr = ErrReaderFailed
        /\ call[p].randReads = 1

\* the value of the last option of opts made by constructor ctor, or default
LastValue(opts, ctor, default) ==
    LET idx == {i \in 1..Len(opts) : opts[i].ctor = ctor}
    IN  IF idx = {} THEN default
        ELSE opts[CHOOSE i \in idx : \A j \in idx : j <= i].arg

\* C9: CreateArgon2(options...) binds the defaults (8, 65536, 8, 64, 64, ID,
\* V13) overlaid by the options in argument order: each field holds the value
\* of the last option that targets it, or its default; no value is rejected.
C9_OptionsOverlayDefaults ==
    \A h \in Hashers :
        IF conf[h].isNil
        THEN h = 1 => \A opts \in SeqsUpTo(OptionChoices, MaxOpts) :
                          ENABLED CreateArgon2(h, opts)
        ELSE conf[h] =
                [isNil |-> FALSE,
                 Iterations |-> LastValue(options[h], "Argon2Iterations", 8),
                 Memory |-> LastValue(options[h], "Argon2Memory", 65536),
                 Parallelism |-> LastValue(options[h], "Argon2Parallelism", 8),
                 HashLength |-> LastValue(options[h], "Argon2HashLength", 64),
                 SaltLength |-> LastValue(options[h], "Argon2SaltLength", 64),
                 Mode |-> LastValue(options[h], "Argon2Mode", 2),
                 Version |-> LastValue(options[h], "Argon2Version", 19)]

\* a Hasher was created with two options that target the same field with
\* different values
C9_Witness ==
    \E h \in Hashers :
        /\ ~conf[h].isNil
        /\ Len(options[h]) >= 2
        /\ options[h][1].ctor = options[h][2].ctor
        /\ options[h][1].arg # options[h][2].arg

\* C10: under any interleaving of Encode and Verify calls on one Hasher, the
\* configuration stays the one bound at construction, and every call returns
\* what it returns when run alone with the same arguments and the same answer
\* of the random source.
C10_CallsIndependent ==
    /\ conf = [h \in Hashers |-> CreateArgon2Conf(options[h])]
    /\ \A p \in Procs :
           LET f == call[p]
               c0 == CreateArgon2Conf(options[f.h])
           IN  /\ ReturnedFrom(p, "Encode") =>
                      EncodeAlone(c0, f.raw, f.draw, f.drawErr)
                          = [hash |-> f.retHash, err |-> f.retErr]
               /\ ReturnedFrom(p, "Verify") =>
                      VerifyAlone(c0, f.raw, f.hash)
                          = [ok |-> f.retOK, err |-> f.retErr]

\* an Encode that ran while another call was in flight has returned a hash,
\* and another Encode holds a different salt
C10_Witness ==
    \E p \in Procs, q \in Procs :
        /\ p # q
        /\ ReturnedFrom(p, "Encode")
        /\ call[p].overlap
        /\ call[p].retErr = NoError
        /\ call[q].pc = "EncodeHash"
        /\ call[q].draw # call[p].draw

\* the byte sequence b begins with the bytes of text, position by position
StartsWith(b, text) ==
    /\ ~b.isNil
    /\ Len(b.data) >= Len(text)
    /\ \A i \in 1..Len(text) : b.data[i] = text[i]

\* C11: getArgon2Mode returns (ID, nil) when the hash starts with "$argon2id",
\* (I, nil) when it starts with "$argon2i" but not with "$argon2id", (D, nil)
\* when it starts with "$argon2d", and (-1, ErrInvalidArgon2Mode) for every
\* other input, the empty and the nil one included; the bytes after the
\* matched prefix do not change the result, and no hash that starts with
\* "$argon2id" is classified as I.
C11_ModeFromPrefix ==
    \A p \in Procs :
        LET f == call[p]
            res == [mode |-> f.mode, err |-> f.retErr]
        IN  ReturnedFrom(p, "getArgon2Mode") =>
              /\ res = IF StartsWith(f.hash, TextDollar \o TextArgon2id)
                           THEN [mode |-> Argon2ModeID, err |-> NoError]
                       ELSE IF StartsWith(f.hash, TextDollar \o TextArgon2i)
                           THEN [mode |-> Argon2ModeI, err |-> NoError]
                       ELSE IF StartsWith(f.hash, TextDollar \o TextArgon2d)
                           THEN [mode |-> Argon2ModeD, err |-> NoError]
                       ELSE [mode |-> -1, err |-> ErrInvalidArgon2Mode]
              /\ StartsWith(f.hash, TextDollar \o TextArgon2id) => f.mode # Argon2ModeI
              /\ \A pre \in {PrefixArgon2id, PrefixArgon2i, PrefixArgon2d} :
                     (/\ StartsWith(f.hash, pre)
                      /\ pre = PrefixArgon2i => ~StartsWith(f.hash, PrefixArgon2id))
                     => \A t \in ModeTails :
                            (pre = PrefixArgon2i => ~StartsWith(Slice(pre \o t), PrefixArgon2id))
                            => getArgon2Mode(Slice(pre \o t)) = res

\* getArgon2Mode has classified a hash that goes on after "$argon2id" as ID
C11_Witness ==
    \E p \in Procs :
        /\ ReturnedFrom(p, "getArgon2Mode")
        /\ StartsWith(call[p].hash, PrefixArgon2id)
        /\ Len(call[p].hash.data) > Len(PrefixArgon2id)
        /\ call[p].mode = Argon2ModeID
        /\ call[p].retErr = NoError

\* the uint32_t u holds the value of the Go int x
SameValue(u, x) == x >= 0 /\ u.hi = x \div 65536 /\ u.lo = x % 65536

\* C12: when Encode has passed its preconditions and called the primitive,
\* argon2_encodedlen and argon2_hash have received the configured iterations,
\* memory, parallelism, hash length, mode and version unaltered, a salt of
\* SaltLength bytes and a buffer of the length argon2_encodedlen returned;
\* so a hash that Encode returns is a hash under the configured costs.
C12_ValuesReachPrimitive ==
    \A p \in Procs :
        LET f == call[p]
            a == f.primArgs
            c == f.c
        IN  (ReturnedFrom(p, "Encode") /\ f.primCalls = 1) =>
              /\ SameValue(a.t_cost, c.Iterations)
              /\ SameValue(a.m_cost, c.Memory)
              /\ SameValue(a.parallelism, c.Parallelism)
              /\ SameValue(a.hashlen32, c.HashLength)
              /\ a.hashlen = c.HashLength
              /\ SameValue(a.type, c.Mode)
              /\ SameValue(a.version, c.Version)
              /\ Len(a.salt) = c.SaltLength
              /\ SameValue(a.saltlen, c.SaltLength)
              /\ a.buffer = a.encodedlen
              /\ f.retErr = NoError =>
                     LET ctx == decode_string(f.retHash.data, a.type)
                     IN  /\ SameValue(ctx.t, c.Iterations)
                         /\ SameValue(ctx.m, c.Memory)
                         /\ SameValue(ctx.p, c.Parallelism)

====
